---- MODULE Spec2Model ----
(***************************************************************************)
(* Model of the MELT exporter, platform/melt/exporter.go.                  *)
(*                                                                         *)
(* An Exporter turns a list of entities into an OTLP request (metrics,     *)
(* logs or spans), marshals it, optionally dumps it and optionally POSTs   *)
(* it.  The builders and the attribute coercer are operators; each export  *)
(* call is one action whose effects are recorded, in order, in trace; the  *)
(* caller supplies a list of entities and makes any sequence of calls.     *)
(***************************************************************************)
EXTENDS Integers, Sequences, FiniteSets, TLC

VARIABLES
    exp,        \* the Exporter: [DumpFunc, DumpFormat, DryRun]
    authMethod, \* config.GetCurrentContext().AuthMethod, as the last call read it
    kind,       \* the last operation: "none", "metrics", "logs", "events", "spans",
                \* "coerce", "relations"
    entities,   \* the caller's entity list, as it is now
    input,      \* the entity list as it was when the last call was made
    payload,    \* the resource blocks of the request the last call built; <<>> is nil
    trace,      \* the effects of the last call, in the order they happened
    result,     \* what the last call returned
    postErr,    \* the error api.HTTPPost returned in the last call, NoError if none
    a,          \* coercer input: an attribute mapping
    attribs,    \* coercer output: the KeyValue list
    encodings   \* the resource attributes each relationship encoding so far left

vars == <<exp, authMethod, kind, entities, input, payload, trace, result,
          postErr, a, attribs, encodings>>

-----------------------------------------------------------------------------
(* Bounds of the model.                                                    *)

MaxAttrKeys == 2     \* keys an attribute mapping given to the coercer may hold
MaxEntities == 2     \* entities in one export call
MaxRecords == 2      \* metrics, logs or spans of one entity
MaxRels == 2         \* relationships of one entity
MaxEncodings == 2    \* encodings made of one relationship sequence

-----------------------------------------------------------------------------
(* Program constants, exporter.go:30-47.                                   *)

pathMetrics == "metrics"
pathLogs == "logs"
pathSpans == "trace"
agentName == "sample-datagen"
agentVersion == "0.0.1"
keyAppdFMMEntityRelationships == "appd.fmm.entity.relations"
keyAppdIsEvent == "appd.isevent"
keyAppdEventType == "appd.event.type"

DumpFormatHuman == "human"
DumpFormatText == "text"
DumpFormatJson == "json"
DumpFormatYaml == "yaml"
DumpFormatHex == "hex"

-----------------------------------------------------------------------------
(* Dynamic values (Go interface{}).  A value is [kind, b, i, s]: kind is   *)
(* the reflect.Kind of the value, and b, i or s holds it (a boolean, a     *)
(* number, a string; the other two fields are at their zero).  "invalid"   *)
(* is the kind reflect.ValueOf(nil) reports; "slice" and "ptr" stand for   *)
(* the kinds the coercer has no case for, s holding their fmt %v           *)
(* rendering.  A float is modelled by an integral value.                   *)

BoolVal(b) == [kind |-> "bool", b |-> b, i |-> 0, s |-> ""]
NumVal(k, n) == [kind |-> k, b |-> FALSE, i |-> n, s |-> ""]
StrVal(k, t) == [kind |-> k, b |-> FALSE, i |-> 0, s |-> t]

NilValue == StrVal("invalid", "")

SignedKinds == {"int", "int8", "int16", "int32", "int64"}
UnsignedKinds == {"uint", "uint8", "uint16", "uint32", "uint64"}
FloatKinds == {"float32", "float64"}

ValueSet ==
    {BoolVal(TRUE), BoolVal(FALSE), StrVal("string", "s"), NilValue,
     StrVal("slice", "[1 2]"), StrVal("ptr", "<nil>"), NumVal("uintptr", 9)}
    \cup {NumVal(k, -7) : k \in SignedKinds}
    \cup {NumVal(k, 16) : k \in UnsignedKinds}
    \cup {NumVal(k, 3) : k \in FloatKinds}

Digits == <<"0", "1", "2", "3", "4", "5", "6", "7", "8", "9">>

\* strconv of an integer, as fmt's %v prints it
RECURSIVE Itoa(_)
Itoa(n) ==
    IF n < 0 THEN "-" \o Itoa(-n)
    ELSE IF n < 10 THEN Digits[n + 1]
    ELSE Itoa(n \div 10) \o Digits[(n % 10) + 1]

\* fmt.Sprintf("%v", v) for the values the coercer's default case meets
Sprintv(val) ==
    IF val.kind \in SignedKinds \cup UnsignedKinds \cup {"uintptr"}
    THEN Itoa(val.i)
    ELSE val.s

\* int64(u): the values of the model are below 2^63, where the
\* reinterpretation of an unsigned value leaves it unchanged
Int64OfUint(u) == u

\* common.AnyValue: type names the oneof case that is set; b, i, s hold a
\* scalar, list the elements of an ArrayValue or the entries of a KvlistValue
BoolValue(b) == [type |-> "BoolValue", b |-> b, i |-> 0, s |-> "", list |-> <<>>]
IntValue(n) == [type |-> "IntValue", b |-> FALSE, i |-> n, s |-> "", list |-> <<>>]
DoubleValue(n) == [type |-> "DoubleValue", b |-> FALSE, i |-> n, s |-> "", list |-> <<>>]
StringValue(t) == [type |-> "StringValue", b |-> FALSE, i |-> 0, s |-> t, list |-> <<>>]
KvlistValue(l) == [type |-> "KvlistValue", b |-> FALSE, i |-> 0, s |-> "", list |-> l]
ArrayValue(l) == [type |-> "ArrayValue", b |-> FALSE, i |-> 0, s |-> "", list |-> l]

KeyValue(k, v) == [Key |-> k, Value |-> v]

\* the positions of the entries of a KeyValue list that have key k
entriesOf(kvs, k) == {i \in 1..Len(kvs) : kvs[i].Key = k}

\* the switch of toKeyValueList on vt.Kind(), for a value that is not nil
coerceValue(val) ==
    CASE val.kind = "bool" -> BoolValue(val.b)
      [] val.kind \in {"int", "int8", "int32", "int64"} -> IntValue(val.i)
      [] val.kind \in {"uint", "uint8", "uint32", "uint64"} ->
             IntValue(Int64OfUint(val.i))
      [] val.kind \in FloatKinds -> DoubleValue(val.i)
      [] val.kind = "string" -> StringValue(val.s)
      [] OTHER -> StringValue(Sprintv(val))

\* the default case's test v == nil: the key is skipped
skipsValue(val) == val.kind = "invalid"

\* Every key an attribute mapping of the model may hold, in a fixed
\* enumeration.  Go ranges over a map in an order it randomises; a range loop
\* of the model walks this enumeration forwards or backwards (rev), which is
\* every order of a mapping of up to two keys.
KeySeq ==
    <<"service", "n", keyAppdIsEvent, keyAppdEventType,
      keyAppdFMMEntityRelationships, "type", "to">>

Reverse(s) == [i \in 1..Len(s) |-> s[Len(s) + 1 - i]]

RangeOrder(m, rev) ==
    LET ks == SelectSeq(KeySeq, LAMBDA k : k \in DOMAIN m)
    IN  IF rev THEN Reverse(ks) ELSE ks

RECURSIVE coerceLoop(_, _)
coerceLoop(m, ks) ==
    IF ks = <<>> THEN <<>>
    ELSE LET k == Head(ks)
         IN  IF skipsValue(m[k])
             THEN coerceLoop(m, Tail(ks))     \* continue
             ELSE <<KeyValue(k, coerceValue(m[k]))>> \o coerceLoop(m, Tail(ks))

toKeyValueList(m, rev) == coerceLoop(m, RangeOrder(m, rev))

EmptyMap == [k \in {} |-> NilValue]

\* m[k] = v on a Go map
MapSet(m, k, v) == [x \in DOMAIN m \cup {k} |-> IF x = k THEN v ELSE m[x]]

-----------------------------------------------------------------------------
(* The data model the exporter reads (Entity, Relationship, Metric, Log,   *)
(* Span), as exporter.go uses its fields.                                  *)
(*                                                                         *)
(* A Go map that is nil reads as the empty map; writing to it panics.      *)
(* Only createOtelLog writes to a map, so only a Log carries the flag      *)
(* AttributesNil (its Attributes is then EmptyMap).                        *)

AggregationTemporalityDelta == "delta"
AggregationTemporalityCumulative == "cumulative"

DataPoint(st, et, v) == [StartTime |-> st, EndTime |-> et, Value |-> v]

Metric(tn, ct, ty, mono, at, attrs, dps) ==
    [TypeName |-> tn, ContentType |-> ct, Type |-> ty, IsMonotonic |-> mono,
     AggregationTemporality |-> at, Attributes |-> attrs, DataPoints |-> dps]

Log(tn, body, sev, attrs, attrsNil, isEvent) ==
    [TypeName |-> tn, Body |-> body, Timestamp |-> 5, Severity |-> sev,
     Attributes |-> attrs, AttributesNil |-> attrsNil, IsEvent |-> isEvent]

\* Status is optional: StatusSet tells whether t.Status != nil
Span(name, attrs, events, links, statusSet) ==
    [Name |-> name, TraceID |-> "t", SpanID |-> "s", ParentSpanID |-> "",
     TraceState |-> "", Kind |-> 1, StartTime |-> 1, EndTime |-> 2,
     Attributes |-> attrs, Events |-> events, Links |-> links,
     StatusSet |-> statusSet, Status |-> [Code |-> 1, Message |-> "ok"]]

SpanEvent(name, attrs) == [Timestamp |-> 9, Name |-> name, Attributes |-> attrs]
SpanLink(attrs) == [TraceID |-> "t2", SpanID |-> "s2", TraceState |-> "", Attributes |-> attrs]

Relationship(attrs) == [Attributes |-> attrs]

Entity(attrs, rels, ms, ls, ss) ==
    [Attributes |-> attrs, Relationships |-> rels, Metrics |-> ms, Logs |-> ls,
     Spans |-> ss]

\* The order of each range loop over a map in one call: of the resource
\* attributes (res), of a relationship's attributes (rel), of a record's
\* attributes (rec).
Seeds == [res : BOOLEAN, rel : BOOLEAN, rec : BOOLEAN]

-----------------------------------------------------------------------------
(* The builders.                                                           *)

getInstrumentationScope == [Name |-> agentName, Version |-> agentVersion]

\* the loop of addRelationships / addRelationshipsToMetrics over rels
RECURSIVE relValues(_, _)
relValues(rels, rev) ==
    IF rels = <<>> THEN <<>>
    ELSE <<KvlistValue(toKeyValueList(Head(rels).Attributes, rev))>>
         \o relValues(Tail(rels), rev)

\* r.Attributes after addRelationships(rels, r)
addRelationships(rels, attributes, rev) ==
    IF Len(rels) > 0
    THEN Append(attributes,
                KeyValue(keyAppdFMMEntityRelationships, ArrayValue(relValues(rels, rev))))
    ELSE attributes

\* rm.Resource.Attributes after addRelationshipsToMetrics(rels, rm)
addRelationshipsToMetrics(rels, attributes, rev) ==
    IF Len(rels) > 0
    THEN Append(attributes,
                KeyValue(keyAppdFMMEntityRelationships, ArrayValue(relValues(rels, rev))))
    ELSE attributes

\* a nil *metrics.Metric
NilMetric ==
    [nil |-> TRUE, Name |-> "", Data |-> "", AggregationTemporality |-> "",
     IsMonotonic |-> FALSE, DataPoints |-> <<>>]

\* one NumberDataPoint of createOtelMetric; int64(dp.Value) and
\* uint64(dp.StartTime) leave the integral, non-negative values of the model
\* unchanged
numberDataPoint(m, dp, mAttribs) ==
    [StartTimeUnixNano |-> dp.StartTime,
     TimeUnixNano |-> dp.EndTime,
     Attributes |-> mAttribs,
     Value |-> CASE m.Type = "long" -> [as |-> "AsInt", n |-> dp.Value]
                 [] m.Type = "double" -> [as |-> "AsDouble", n |-> dp.Value]
                 [] OTHER -> [as |-> "unset", n |-> 0]]

createOtelMetric(m, rev) ==
    LET mAttribs == toKeyValueList(m.Attributes, rev)
        dps == [i \in 1..Len(m.DataPoints) |->
                    numberDataPoint(m, m.DataPoints[i], mAttribs)]
    IN  CASE m.ContentType = "sum" ->
                 [nil |-> FALSE, Name |-> m.TypeName, Data |-> "Sum",
                  AggregationTemporality |->
                      CASE m.AggregationTemporality = AggregationTemporalityDelta ->
                               "AGGREGATION_TEMPORALITY_DELTA"
                        [] m.AggregationTemporality = AggregationTemporalityCumulative ->
                               "AGGREGATION_TEMPORALITY_CUMULATIVE"
                        [] OTHER -> "AGGREGATION_TEMPORALITY_UNSPECIFIED",
                  IsMonotonic |-> m.IsMonotonic,
                  DataPoints |-> dps]
          [] m.ContentType = "gauge" ->
                 [nil |-> FALSE, Name |-> m.TypeName, Data |-> "Gauge",
                  AggregationTemporality |-> "", IsMonotonic |-> FALSE,
                  DataPoints |-> dps]
          [] OTHER -> NilMetric     \* log.Errorf("unsuported metrics type"); return nil

\* the inner loop of buildMetricsPayload: ml = append(ml, otm) for every metric
metricList(ms, rev) == [i \in 1..Len(ms) |-> createOtelMetric(ms[i], rev)]

\* buildMetricsPayload without the test of len(entity.Metrics)
RECURSIVE buildMetricsPayloadOfAll(_, _)
buildMetricsPayloadOfAll(es, seed) ==
    IF es = <<>> THEN <<>>
    ELSE LET entity == Head(es)
             rm == [Resource |->
                        [Attributes |->
                             addRelationshipsToMetrics(
                                 entity.Relationships,
                                 toKeyValueList(entity.Attributes, seed.res),
                                 seed.rel)],
                    ScopeMetrics |->
                        <<[Scope |-> getInstrumentationScope,
                           Metrics |-> metricList(entity.Metrics, seed.rec)]>>]
         IN  <<rm>> \o buildMetricsPayloadOfAll(Tail(es), seed)

RECURSIVE buildMetricsPayload(_, _)
buildMetricsPayload(es, seed) ==
    IF es = <<>> THEN <<>>
    ELSE LET entity == Head(es)
             rm == [Resource |->
                        [Attributes |->
                             addRelationshipsToMetrics(
                                 entity.Relationships,
                                 toKeyValueList(entity.Attributes, seed.res),
                                 seed.rel)],
                    ScopeMetrics |->
                        <<[Scope |-> getInstrumentationScope,
                           Metrics |-> metricList(entity.Metrics, seed.rec)]>>]
         IN  IF Len(entity.Metrics) = 0
             THEN buildMetricsPayload(Tail(es), seed)      \* continue
             ELSE <<rm>> \o buildMetricsPayload(Tail(es), seed)

\* createOtelLog tagging every log as an event
createOtelLogTaggingAll(l, rev) ==
    LET attrs == MapSet(MapSet(l.Attributes, keyAppdIsEvent, StrVal("string", "true")),
                        keyAppdEventType, StrVal("string", l.TypeName))
    IN  IF l.AttributesNil
        THEN [panic |-> TRUE, l |-> l,
              rec |-> [Body |-> StringValue(""), TimeUnixNano |-> 0,
                       Attributes |-> <<>>, SeverityText |-> ""]]
        ELSE [panic |-> FALSE,
              l |-> [l EXCEPT !.Attributes = attrs],
              rec |-> [Body |-> StringValue(l.Body),
                       TimeUnixNano |-> l.Timestamp,
                       Attributes |-> toKeyValueList(attrs, rev),
                       SeverityText |-> IF l.Severity # "" THEN l.Severity ELSE ""]]

\* createOtelLog: the log as the call leaves it (l), the LogRecord (rec), and
\* whether the write to l.Attributes panicked (a nil map)
createOtelLog(l, rev) ==
    LET panics == l.IsEvent /\ l.AttributesNil
        attrs == IF l.IsEvent
                 THEN MapSet(MapSet(l.Attributes, keyAppdIsEvent, StrVal("string", "true")),
                             keyAppdEventType, StrVal("string", l.TypeName))
                 ELSE l.Attributes
    IN  IF panics
        THEN [panic |-> TRUE, l |-> l,
              rec |-> [Body |-> StringValue(""), TimeUnixNano |-> 0,
                       Attributes |-> <<>>, SeverityText |-> ""]]
        ELSE [panic |-> FALSE,
              l |-> [l EXCEPT !.Attributes = attrs],
              rec |-> [Body |-> StringValue(l.Body),
                       TimeUnixNano |-> l.Timestamp,
                       Attributes |-> toKeyValueList(attrs, rev),
                       SeverityText |-> IF l.Severity # "" THEN l.Severity ELSE ""]]

\* the inner loop of buildLogsPayload over e.Logs: the logs as left, the
\* records, and whether a createOtelLog panicked (the loop stops there)
RECURSIVE logList(_, _)
logList(ls, rev) ==
    IF ls = <<>> THEN [panic |-> FALSE, ls |-> <<>>, recs |-> <<>>]
    ELSE LET otl == createOtelLog(Head(ls), rev)
             rest == logList(Tail(ls), rev)
         IN  IF otl.panic
             THEN [panic |-> TRUE, ls |-> ls, recs |-> <<>>]
             ELSE [panic |-> rest.panic,
                   ls |-> <<otl.l>> \o rest.ls,
                   recs |-> <<otl.rec>> \o rest.recs]

\* buildLogsPayload: the request's ResourceLogs (req), the entities as the
\* call leaves them (es), and whether it panicked
RECURSIVE buildLogsPayload(_, _)
buildLogsPayload(es, seed) ==
    IF es = <<>> THEN [panic |-> FALSE, es |-> <<>>, req |-> <<>>]
    ELSE LET e == Head(es)
             lr == logList(e.Logs, seed.rec)
             rl == [Resource |->
                        [Attributes |->
                             addRelationships(
                                 e.Relationships,
                                 toKeyValueList(e.Attributes, seed.res),
                                 seed.rel)],
                    ScopeLogs |->
                        <<[Scope |-> getInstrumentationScope, LogRecords |-> lr.recs]>>]
             rest == buildLogsPayload(Tail(es), seed)
         IN  IF Len(e.Logs) = 0
             THEN [rest EXCEPT !.es = <<e>> \o rest.es]      \* continue
             ELSE IF lr.panic
             THEN [panic |-> TRUE,
                   es |-> <<[e EXCEPT !.Logs = lr.ls]>> \o Tail(es),
                   req |-> <<>>]
             ELSE [panic |-> rest.panic,
                   es |-> <<[e EXCEPT !.Logs = lr.ls]>> \o rest.es,
                   req |-> IF rest.panic THEN <<>> ELSE <<rl>> \o rest.req]

createOtelSpan(t, rev) ==
    [Name |-> t.Name, TraceId |-> t.TraceID, SpanId |-> t.SpanID,
     TraceState |-> t.TraceState, ParentSpanId |-> t.ParentSpanID,
     Kind |-> t.Kind,
     StartTimeUnixNano |-> t.StartTime, EndTimeUnixNano |-> t.EndTime,
     Attributes |-> toKeyValueList(t.Attributes, rev),
     Events |-> [i \in 1..Len(t.Events) |->
                     [TimeUnixNano |-> t.Events[i].Timestamp,
                      Name |-> t.Events[i].Name,
                      Attributes |-> toKeyValueList(t.Events[i].Attributes, rev)]],
     Links |-> [i \in 1..Len(t.Links) |->
                    [TraceId |-> t.Links[i].TraceID,
                     SpanId |-> t.Links[i].SpanID,
                     TraceState |-> t.Links[i].TraceState,
                     Attributes |-> toKeyValueList(t.Links[i].Attributes, rev)]],
     StatusSet |-> t.StatusSet,
     Status |-> IF t.StatusSet
                THEN [Message |-> t.Status.Message, Code |-> t.Status.Code]
                ELSE [Message |-> "", Code |-> 0]]

\* buildSpansPayload prepending each block instead of appending it
RECURSIVE buildSpansPayloadReversed(_, _)
buildSpansPayloadReversed(es, seed) ==
    IF es = <<>> THEN <<>>
    ELSE LET e == Head(es)
             rs == [Resource |-> [Attributes |-> toKeyValueList(e.Attributes, seed.res)],
                    ScopeSpans |->
                        <<[Spans |-> [i \in 1..Len(e.Spans) |->
                                          createOtelSpan(e.Spans[i], seed.rec)],
                           Scope |-> getInstrumentationScope]>>]
         IN  IF Len(e.Spans) = 0
             THEN buildSpansPayloadReversed(Tail(es), seed)
             ELSE buildSpansPayloadReversed(Tail(es), seed) \o <<rs>>

RECURSIVE buildSpansPayload(_, _)
buildSpansPayload(es, seed) ==
    IF es = <<>> THEN <<>>
    ELSE LET e == Head(es)
             rs == [Resource |-> [Attributes |-> toKeyValueList(e.Attributes, seed.res)],
                    ScopeSpans |->
                        <<[Spans |-> [i \in 1..Len(e.Spans) |->
                                          createOtelSpan(e.Spans[i], seed.rec)],
                           Scope |-> getInstrumentationScope]>>]
         IN  IF Len(e.Spans) = 0
             THEN buildSpansPayload(Tail(es), seed)      \* continue
             ELSE <<rs>> \o buildSpansPayload(Tail(es), seed)

-----------------------------------------------------------------------------
(* The transport driver.                                                   *)
(*                                                                         *)
(* An error is [type, code, prefix]: type "status" is an api.HttpStatusError*)
(* (code its StatusCode), "transport" a network error, "proto" a           *)
(* proto.Marshal error; a non-empty prefix says the error is wrapped       *)
(* (fmt.Errorf("prefix: %w", err)), which errors.As sees through.          *)

NoError == [type |-> "none", code |-> 0, prefix |-> ""]
NoResult == [ret |-> "none", err |-> NoError]
ReturnNil == [ret |-> "nil", err |-> NoError]
ReturnErr(e) == [ret |-> "error", err |-> e]
Panicked == [ret |-> "panic", err |-> NoError]
Exited == [ret |-> "fatal", err |-> NoError]      \* log.Fatalf ended the process

StatusForbidden == 403
AuthMethodAgentPrincipal == "agent-principal"

Event(ev, arg) == [ev |-> ev, arg |-> arg]

AuthMethods == {AuthMethodAgentPrincipal, "oauth"}

\* what the collaborators of one exportHTTP call do: whether proto.Marshal
\* fails, whether the dump format's marshaller fails, the error of
\* api.HTTPPost (NoError: none), the Traceresponse header of the response
\* ("absent", "novalues": present with no value, "one": present with a value)
\* and the auth method of the current context
PostErrors ==
    {NoError,
     [type |-> "transport", code |-> 0, prefix |-> ""],
     [type |-> "status", code |-> StatusForbidden, prefix |-> ""],
     [type |-> "status", code |-> StatusForbidden, prefix |-> "request failed"],
     [type |-> "status", code |-> 500, prefix |-> ""]}

Env(m, d, p, h, au) ==
    [marshalErr |-> m, dumpErr |-> d, post |-> p, header |-> h, auth |-> au]

DefaultEnv == Env(FALSE, FALSE, NoError, "absent", AuthMethodAgentPrincipal)

\* One outcome per way a call of exporter e with request req can go: a
\* collaborator the call does not reach, or whose outcome it does not look
\* at, is left at its default.
Envs(e, req) ==
    IF Len(req) = 0 THEN {DefaultEnv}
    ELSE {DefaultEnv, Env(TRUE, FALSE, NoError, "absent", AuthMethodAgentPrincipal)}
         \cup (IF e.DumpFunc
               THEN {Env(FALSE, TRUE, NoError, "absent", AuthMethodAgentPrincipal)}
               ELSE {})
         \cup (IF ~e.DryRun
               THEN {Env(FALSE, FALSE, p, "absent", au) :
                         p \in PostErrors \ {NoError}, au \in AuthMethods}
                    \cup {Env(FALSE, FALSE, NoError, h, AuthMethodAgentPrincipal) :
                              h \in {"novalues", "one"}}
               ELSE {})

\* dumpPayload calling the writer once for s and once for b
dumpPayloadTwice(format, dumpErr) ==
    LET err == dumpErr /\ format \in {DumpFormatText, DumpFormatJson,
                                       DumpFormatYaml, DumpFormatHex}
    IN  IF err
        THEN [fatal |-> TRUE, trace |-> <<Event("fatal", format)>>]
        ELSE [fatal |-> FALSE, trace |-> <<Event("dump", format), Event("dump", format)>>]

\* dumpPayload: the marshallers of text, json, yaml and hex can fail, and a
\* failure is fatal; otherwise the writer is called once
dumpPayload(format, dumpErr) ==
    LET err == dumpErr /\ format \in {DumpFormatText, DumpFormatJson,
                                       DumpFormatYaml, DumpFormatHex}
    IN  IF err
        THEN [fatal |-> TRUE, trace |-> <<Event("fatal", format)>>]
        ELSE [fatal |-> FALSE, trace |-> <<Event("dump", format)>>]

\* hintAboutPermissions without the test of the auth method
hintForAnyAuthMethod(err, auth) ==
    /\ err.type = "status"
    /\ err.code = StatusForbidden

\* hintAboutPermissions: whether the warning is logged
hintAboutPermissions(err, auth) ==
    /\ err.type = "status"                     \* errors.As(err, &statusError)
    /\ err.code = StatusForbidden
    /\ auth # AuthMethodAgentPrincipal

\* the send branch of exportHTTP (!exp.DryRun)
sendData(path, env) ==
    LET apiPath == "data/v1/" \o path
        post == <<Event("post", apiPath)>>
    IN  IF env.post.type # "none"
        THEN [trace |-> post \o (IF hintAboutPermissions(env.post, env.auth)
                                 THEN <<Event("warn", "hint")>> ELSE <<>>),
              result |-> ReturnErr(env.post)]
        ELSE IF env.header = "novalues"
        THEN [trace |-> post, result |-> Panicked]       \* trh[0] of an empty slice
        ELSE [trace |-> post \o <<Event("info", "Sent MELT data")>>,
              result |-> ReturnNil]

\* exportHTTP sending whatever exp.DryRun says
exportHTTPIgnoringDryRun(e, path, env) ==
    LET marshal == <<Event("marshal", IF env.marshalErr THEN "error" ELSE "ok")>>
        dump == IF e.DumpFunc THEN dumpPayload(e.DumpFormat, env.dumpErr)
                ELSE [fatal |-> FALSE, trace |-> <<>>]
        send == sendData(path, env)
    IN  IF env.marshalErr
        THEN [trace |-> marshal,
              result |-> ReturnErr([type |-> "proto", code |-> 0,
                                    prefix |-> "failed to marshal MELT data"])]
        ELSE IF dump.fatal
        THEN [trace |-> marshal \o dump.trace, result |-> Exited]
        ELSE [trace |-> marshal \o dump.trace \o send.trace, result |-> send.result]

\* exportHTTP dumping before it marshals
exportHTTPDumpingFirst(e, path, env) ==
    LET marshal == <<Event("marshal", IF env.marshalErr THEN "error" ELSE "ok")>>
        dump == IF e.DumpFunc THEN dumpPayload(e.DumpFormat, env.dumpErr)
                ELSE [fatal |-> FALSE, trace |-> <<>>]
        send == IF ~e.DryRun THEN sendData(path, env)
                ELSE [trace |-> <<>>, result |-> ReturnNil]
    IN  IF dump.fatal
        THEN [trace |-> dump.trace, result |-> Exited]
        ELSE IF env.marshalErr
        THEN [trace |-> dump.trace \o marshal,
              result |-> ReturnErr([type |-> "proto", code |-> 0,
                                    prefix |-> "failed to marshal MELT data"])]
        ELSE [trace |-> dump.trace \o marshal \o send.trace, result |-> send.result]

\* exportHTTP: the effects in order (trace) and what is returned (result)
exportHTTP(e, path, env) ==
    LET marshal == <<Event("marshal", IF env.marshalErr THEN "error" ELSE "ok")>>
        dump == IF e.DumpFunc THEN dumpPayload(e.DumpFormat, env.dumpErr)
                ELSE [fatal |-> FALSE, trace |-> <<>>]
        send == IF ~e.DryRun THEN sendData(path, env)
                ELSE [trace |-> <<>>, result |-> ReturnNil]
    IN  IF env.marshalErr
        THEN [trace |-> marshal,
              result |-> ReturnErr([type |-> "proto", code |-> 0,
                                    prefix |-> "failed to marshal MELT data"])]
        ELSE IF dump.fatal
        THEN [trace |-> marshal \o dump.trace, result |-> Exited]
        ELSE [trace |-> marshal \o dump.trace \o send.trace, result |-> send.result]

countOf(t, ev) == Cardinality({n \in 1..Len(t) : t[n].ev = ev})

-----------------------------------------------------------------------------
(* The inputs of the export calls.                                         *)

sumMetric ==
    Metric("reqs", "sum", "long", TRUE, AggregationTemporalityCumulative,
           [k \in {"service"} |-> StrVal("string", "x")], <<DataPoint(1, 2, 7)>>)
gaugeMetric ==
    Metric("temp", "gauge", "double", FALSE, "", EmptyMap, <<DataPoint(1, 2, 3)>>)
histogramMetric ==
    Metric("lat", "histogram", "double", FALSE, AggregationTemporalityDelta,
           EmptyMap, <<DataPoint(1, 2, 3)>>)

eventLog ==
    Log("user.login", "hi", "INFO",
        [k \in {keyAppdIsEvent} |-> BoolVal(FALSE)], FALSE, TRUE)
nilEventLog == Log("user.logout", "bye", "", EmptyMap, TRUE, TRUE)
plainLog ==
    Log("app.log", "msg", "",
        [k \in {keyAppdEventType} |-> StrVal("string", "mine")], FALSE, FALSE)
bareLog == Log("app.log", "msg2", "WARN", EmptyMap, TRUE, FALSE)

fullSpan ==
    Span("op", [k \in {"n"} |-> NumVal("int", 1)],
         <<SpanEvent("e", EmptyMap)>>, <<SpanLink(EmptyMap)>>, TRUE)
bareSpan == Span("op2", EmptyMap, <<>>, <<>>, FALSE)

serviceAttrs == [k \in {"service"} |-> StrVal("string", "x")]
reservedAttrs ==
    [k \in {"service", keyAppdFMMEntityRelationships} |->
        IF k = "service" THEN NilValue ELSE StrVal("string", "mine")]

\* the i-th relationship of an entity
relationship(i) ==
    IF i % 2 = 1
    THEN Relationship([k \in {"type", "to"} |-> StrVal("string", k)])
    ELSE Relationship([k \in {"to"} |-> NumVal("int", i)])

relationships(n) == [i \in 1..n |-> relationship(i)]

SeqsUpTo(S, n) == UNION {[1..m -> S] : m \in 0..n}

\* the entities of the export calls of Spec
ExportEntities ==
    {Entity(EmptyMap, <<>>, <<>>, <<>>, <<>>),
     Entity(serviceAttrs, relationships(1), <<sumMetric, histogramMetric>>, <<>>, <<>>),
     Entity(serviceAttrs, <<>>, <<>>, <<eventLog>>, <<fullSpan>>),
     Entity(EmptyMap, <<>>, <<gaugeMetric>>, <<nilEventLog>>, <<>>)}

DumpFormats ==
    {DumpFormatHuman, DumpFormatText, DumpFormatJson, DumpFormatYaml, DumpFormatHex, ""}

-----------------------------------------------------------------------------
(* The export calls.                                                       *)

NoCall ==
    /\ kind = "none"
    /\ input = <<>>
    /\ payload = <<>>
    /\ trace = <<>>
    /\ result = NoResult
    /\ postErr = NoError

\* DumpFormat is read only when DumpFunc is set: without one it is left at
\* its zero value
Exporters ==
    {e \in [DumpFunc : BOOLEAN, DumpFormat : DumpFormats, DryRun : BOOLEAN] :
        ~e.DumpFunc => e.DumpFormat = ""}

Init ==
    /\ exp \in Exporters
    /\ authMethod = AuthMethodAgentPrincipal
    /\ entities = <<>>
    /\ NoCall
    /\ a = EmptyMap
    /\ attribs = <<>>
    /\ encodings = <<>>

\* the process runs until log.Fatalf ends it
Running == result.ret # "fatal"

\* in one call of Spec every range loop over a map runs in the same direction
CallSeeds == {seed \in Seeds : seed.res = seed.rel /\ seed.rel = seed.rec}

\* the caller adds an entity to the list it is assembling
AddEntity ==
    /\ Running
    /\ kind = "none"
    /\ Len(entities) < MaxEntities
    /\ \E e \in ExportEntities : entities' = Append(entities, e)
    /\ UNCHANGED <<exp, authMethod, kind, input, payload, trace, result, postErr,
                   a, attribs, encodings>>

\* the caller discards the list it exported and starts another
NewList ==
    /\ Running
    /\ kind # "none"
    /\ entities' = <<>>
    /\ kind' = "none"
    /\ input' = <<>>
    /\ payload' = <<>>
    /\ trace' = <<>>
    /\ result' = NoResult
    /\ postErr' = NoError
    /\ authMethod' = AuthMethodAgentPrincipal
    /\ UNCHANGED <<exp, a, attribs, encodings>>

\* the state after a call that built req, left the caller's entities as es
\* and went the way r (its effects and its result)
Finish(k, es, req, r, env) ==
    /\ kind' = k
    /\ input' = entities
    /\ entities' = es
    /\ payload' = req
    /\ trace' = r.trace
    /\ result' = r.result
    /\ postErr' = env.post
    /\ authMethod' = env.auth
    /\ UNCHANGED <<exp, a, attribs, encodings>>

\* the early return of an export call whose request is nil
nothingToSend(what) ==
    [trace |-> <<Event("info", what)>>, result |-> ReturnNil]

\* the state after a call that panicked while building the request
Panic(k, es) ==
    /\ kind' = k
    /\ input' = entities
    /\ entities' = es
    /\ payload' = <<>>
    /\ trace' = <<>>
    /\ result' = Panicked
    /\ postErr' = NoError
    /\ authMethod' = AuthMethodAgentPrincipal
    /\ UNCHANGED <<exp, a, attribs, encodings>>

ExportLogsAs(k, seed) ==
    LET elsr == buildLogsPayload(entities, seed)
    IN  IF elsr.panic
        THEN Panic(k, elsr.es)
        ELSE \E env \in Envs(exp, elsr.req) :
                 Finish(k, elsr.es, elsr.req,
                        IF Len(elsr.req) = 0 THEN nothingToSend("No logs to send")
                        ELSE exportHTTP(exp, pathLogs, env),
                        env)

ExportMetrics ==
    /\ Running
    /\ \E seed \in CallSeeds :
           LET emsr == buildMetricsPayload(entities, seed)
           IN  \E env \in Envs(exp, emsr) :
                   Finish("metrics", entities, emsr,
                          IF Len(emsr) = 0 THEN nothingToSend("No metrics to send")
                          ELSE exportHTTP(exp, pathMetrics, env),
                          env)

ExportLogs ==
    /\ Running
    /\ \E seed \in CallSeeds : ExportLogsAs("logs", seed)

\* ExportEvents returns exp.ExportLogs(entities)
ExportEvents ==
    /\ Running
    /\ \E seed \in CallSeeds : ExportLogsAs("events", seed)

ExportSpans ==
    /\ Running
    /\ \E seed \in CallSeeds :
           LET essr == buildSpansPayload(entities, seed)
           IN  \E env \in Envs(exp, essr) :
                   Finish("spans", entities, essr,
                          IF Len(essr) = 0 THEN nothingToSend("No spans to send")
                          ELSE exportHTTP(exp, pathSpans, env),
                          env)

Next ==
    \/ AddEntity
    \/ NewList
    \/ ExportMetrics
    \/ ExportLogs
    \/ ExportEvents
    \/ ExportSpans

Spec == Init /\ [][Next]_vars

-----------------------------------------------------------------------------
(* The builders on their own: BuildInit draws a list of entities, and the  *)
(* Build actions apply a builder to it, every range loop in its own order. *)

BuildEntities ==
    {Entity(serviceAttrs, <<>>, ms, <<plainLog>>, <<>>) :
         ms \in SeqsUpTo({sumMetric, histogramMetric}, MaxRecords)}
    \cup {Entity(EmptyMap, relationships(1), <<>>, ls, <<bareSpan>>) :
         ls \in SeqsUpTo({eventLog, plainLog}, MaxRecords)}
    \cup {Entity(at, relationships(n), <<gaugeMetric>>, <<bareLog>>, <<fullSpan>>) :
         at \in {serviceAttrs, reservedAttrs}, n \in 0..MaxRels}
    \cup {Entity(serviceAttrs, <<>>, <<>>, <<eventLog, nilEventLog>>, <<>>)}

BuildInputs == SeqsUpTo(BuildEntities, MaxEntities)

BuildInit ==
    /\ exp = [DumpFunc |-> FALSE, DumpFormat |-> "", DryRun |-> TRUE]
    /\ authMethod = AuthMethodAgentPrincipal
    /\ entities \in BuildInputs
    /\ NoCall
    /\ a = EmptyMap
    /\ attribs = <<>>
    /\ encodings = <<>>

Built(k, es, req, panicked) ==
    /\ kind' = k
    /\ input' = entities
    /\ entities' = es
    /\ payload' = req
    /\ result' = IF panicked THEN Panicked ELSE NoResult
    /\ UNCHANGED <<exp, authMethod, trace, postErr, a, attribs, encodings>>

BuildMetrics ==
    /\ kind = "none"
    /\ \E seed \in Seeds :
           Built("metrics", entities, buildMetricsPayload(entities, seed), FALSE)

BuildLogs ==
    /\ kind = "none"
    /\ \E seed \in Seeds :
           LET elsr == buildLogsPayload(entities, seed)
           IN  Built("logs", elsr.es, elsr.req, elsr.panic)

BuildSpans ==
    /\ kind = "none"
    /\ \E seed \in Seeds :
           Built("spans", entities, buildSpansPayload(entities, seed), FALSE)

BuildNext ==
    \/ BuildMetrics
    \/ BuildLogs
    \/ BuildSpans

SpecBuild == BuildInit /\ [][BuildNext]_vars

-----------------------------------------------------------------------------
(* The coercer on its own: Init draws a mapping, Coerce applies             *)
(* toKeyValueList to it.                                                    *)

CoerceKeys == {KeySeq[i] : i \in 1..MaxAttrKeys}

CoerceMaps == UNION {[S -> ValueSet] : S \in SUBSET CoerceKeys}

CoerceInit ==
    /\ exp = [DumpFunc |-> FALSE, DumpFormat |-> "", DryRun |-> FALSE]
    /\ authMethod = AuthMethodAgentPrincipal
    /\ entities = <<>>
    /\ NoCall
    /\ a \in CoerceMaps
    /\ attribs = <<>>
    /\ encodings = <<>>

Coerce ==
    /\ \E rev \in BOOLEAN : attribs' = toKeyValueList(a, rev)
    /\ kind' = "coerce"
    /\ UNCHANGED <<exp, authMethod, entities, input, payload, trace, result,
                   postErr, a, encodings>>

CoerceNext == Coerce

SpecCoerce == CoerceInit /\ [][CoerceNext]_vars

-----------------------------------------------------------------------------
(* The relationship encoders on their own: RelInit draws an entity with a  *)
(* sequence of relationships, and each Encode action attaches the sequence *)
(* to a resource that holds the entity's attributes.  Every call ranges    *)
(* over the relationships' attribute maps in an order of its own, as a Go  *)
(* range over a map does.                                                  *)

RelSamples ==
    {Relationship(EmptyMap),
     relationship(1),
     relationship(2),
     Relationship([k \in {"n", "on"} |->
                      IF k = "n" THEN NumVal("int", 3) ELSE BoolVal(TRUE)])}

RelInputs ==
    {<<Entity(serviceAttrs, rels, <<>>, <<>>, <<>>)>> :
         rels \in SeqsUpTo(RelSamples, MaxRels)}

RelInit ==
    /\ exp = [DumpFunc |-> FALSE, DumpFormat |-> "", DryRun |-> TRUE]
    /\ authMethod = AuthMethodAgentPrincipal
    /\ entities \in RelInputs
    /\ NoCall
    /\ a = EmptyMap
    /\ attribs = <<>>
    /\ encodings = <<>>

\* the state after one more encoding, made by the encoder named via
Encoded(via, attributes) ==
    /\ Len(encodings) < MaxEncodings
    /\ encodings' = Append(encodings, [via |-> via, Attributes |-> attributes])
    /\ kind' = "relations"
    /\ UNCHANGED <<exp, authMethod, entities, input, payload, trace, result,
                   postErr, a, attribs>>

\* exp.addRelationships(entity.Relationships, rl.Resource)
EncodeForLogs ==
    \E rev \in BOOLEAN :
        LET entity == entities[1]
        IN  Encoded("addRelationships",
                    addRelationships(entity.Relationships,
                                     toKeyValueList(entity.Attributes, rev), rev))

\* exp.addRelationshipsToMetrics(entity.Relationships, rm)
EncodeForMetrics ==
    \E rev \in BOOLEAN :
        LET entity == entities[1]
        IN  Encoded("addRelationshipsToMetrics",
                    addRelationshipsToMetrics(entity.Relationships,
                                              toKeyValueList(entity.Attributes, rev),
                                              rev))

RelNext ==
    \/ EncodeForLogs
    \/ EncodeForMetrics

SpecRel == RelInit /\ [][RelNext]_vars

-----------------------------------------------------------------------------
(* Claims about the export calls (Spec).                                   *)

Exported == kind \in {"metrics", "logs", "events", "spans"}

\* the telemetry of entity e that a call of kind k exports
telemetry(k, e) ==
    CASE k = "metrics" -> e.Metrics
      [] k \in {"logs", "events"} -> e.Logs
      [] k = "spans" -> e.Spans

\* no entity supplied to the last call has telemetry of the exported kind
NothingToExport == \A i \in 1..Len(input) : Len(telemetry(kind, input[i])) = 0

has(ev) == \E n \in 1..Len(trace) : trace[n].ev = ev
MarshalOk == \E n \in 1..Len(trace) : trace[n] = Event("marshal", "ok")
MarshalFailed == \E n \in 1..Len(trace) : trace[n] = Event("marshal", "error")

\* C1: when no supplied entity has telemetry of the exported kind (an empty
\* list included), the export call returns success and does not invoke the
\* HTTP collaborator, whatever DryRun and DumpFunc are.
C1_NothingToSendNoPost ==
    (Exported /\ NothingToExport) => (result = ReturnNil /\ ~has("post"))

\* a logs call on entities that have metrics but no logs, by an exporter that
\* dumps and sends
C1_Witness ==
    /\ kind = "logs" /\ NothingToExport
    /\ \E i \in 1..Len(input) : Len(input[i].Metrics) > 0
    /\ exp.DumpFunc /\ ~exp.DryRun
    /\ result = ReturnNil

\* C2: with DryRun set, no export call of any sequence invokes HTTPPost, and
\* every call whose marshaling (to protobuf, and to the dump format when a
\* dump is asked for) succeeds returns success.
C2_DryRunNeverPosts ==
    (Exported /\ exp.DryRun) =>
        /\ ~has("post")
        /\ (MarshalOk /\ ~has("fatal")) => result = ReturnNil

\* a dry run of a request that was marshalled and dumped
C2_Witness ==
    /\ Exported /\ exp.DryRun /\ exp.DumpFunc
    /\ Len(payload) > 0 /\ MarshalOk /\ has("dump")
    /\ result = ReturnNil

\* C3, as stated: with a dump function configured the dump callback is
\* invoked exactly once per export call, for every entity list and for both
\* values of DryRun.
C3_DumpOncePerCall ==
    (Exported /\ exp.DumpFunc) => countOf(trace, "dump") = 1

\* C3, amended: with a dump function configured the dump callback is invoked
\* exactly once in an export call that builds a request with at least one
\* resource block and marshals it, to protobuf and to the dump format,
\* without error, for both values of DryRun; in every other call (nothing to
\* send, a panic while building, a marshal failure) it is not invoked.
C3_DumpOncePerSentRequest ==
    (Exported /\ exp.DumpFunc) =>
        countOf(trace, "dump") =
            (IF Len(payload) > 0 /\ MarshalOk /\ ~has("fatal") THEN 1 ELSE 0)

\* a call that dumps and then sends
C3_Witness ==
    /\ Exported /\ exp.DumpFunc /\ ~exp.DryRun
    /\ countOf(trace, "dump") = 1 /\ has("post")

\* C4: within one export call the dump callback is invoked only after
\* protobuf marshaling has succeeded and before any POST; when marshaling
\* fails the call returns an error wrapping the cause and invokes neither the
\* dump callback nor the HTTP collaborator.
C4_MarshalDumpPost ==
    Exported =>
        /\ \A n \in 1..Len(trace) :
               trace[n].ev = "dump" =>
                   \E m \in 1..(n - 1) : trace[m] = Event("marshal", "ok")
        /\ \A n \in 1..Len(trace) :
               trace[n].ev = "post" =>
                   /\ \E m \in 1..(n - 1) : trace[m] = Event("marshal", "ok")
                   /\ \A m \in 1..Len(trace) : trace[m].ev = "dump" => m < n
        /\ MarshalFailed =>
               /\ result.ret = "error"
               /\ result.err.type = "proto"
               /\ result.err.prefix = "failed to marshal MELT data"
               /\ ~has("dump") /\ ~has("post")

\* a call that marshals, dumps and posts
C4_Witness ==
    /\ Exported /\ Len(trace) >= 3
    /\ trace[1] = Event("marshal", "ok")
    /\ trace[2].ev = "dump"
    /\ trace[3].ev = "post"

PostFailed == has("post") /\ postErr.type # "none"

\* C5: when DryRun is not set and the POST fails, the export call returns
\* exactly the error the HTTP collaborator returned and does not log 'Sent
\* MELT data'; the permission hint is logged, before the return, if and only
\* if the error is an HTTP status error with code 403 and the auth method of
\* the current context is not agent-principal.
C5_PostErrorReturned ==
    (Exported /\ ~exp.DryRun /\ PostFailed) =>
        /\ result = ReturnErr(postErr)
        /\ \A n \in 1..Len(trace) : trace[n] # Event("info", "Sent MELT data")
        /\ (\E n \in 1..Len(trace) : trace[n] = Event("warn", "hint"))
               <=> (/\ postErr.type = "status"
                    /\ postErr.code = 403
                    /\ authMethod # "agent-principal")

\* a POST answered 403 under a profile that is not agent-principal
C5_Witness ==
    /\ Exported /\ ~exp.DryRun /\ PostFailed
    /\ postErr.type = "status" /\ postErr.code = 403
    /\ authMethod # "agent-principal"
    /\ has("warn")

-----------------------------------------------------------------------------
(* Claims about the builders (SpecBuild).                                  *)

BuilderReturned == kind \in {"metrics", "logs", "spans"} /\ result.ret # "panic"

\* the positions, in order, of the supplied entities that have telemetry of
\* the built kind
sources ==
    SelectSeq([i \in 1..Len(input) |-> i],
              LAMBDA i : Len(telemetry(kind, input[i])) > 0)

keysOf(kvs) == {kvs[i].Key : i \in 1..Len(kvs)}

\* the keys of e.Attributes whose value is not nil
setKeys(e) == {k \in DOMAIN e.Attributes : e.Attributes[k].kind # "invalid"}

relationsEntries(kvs) == entriesOf(kvs, keyAppdFMMEntityRelationships)

\* block is the resource block of entity e: it carries e's attributes, e's
\* relationships when the kind encodes them, and one record per record of e
blockIsOf(block, e) ==
    CASE kind = "metrics" ->
             /\ keysOf(block.Resource.Attributes) =
                    setKeys(e) \cup (IF Len(e.Relationships) > 0
                                     THEN {keyAppdFMMEntityRelationships} ELSE {})
             /\ Len(block.ScopeMetrics) = 1
             /\ Len(block.ScopeMetrics[1].Metrics) > 0
      [] kind = "logs" ->
             /\ keysOf(block.Resource.Attributes) =
                    setKeys(e) \cup (IF Len(e.Relationships) > 0
                                     THEN {keyAppdFMMEntityRelationships} ELSE {})
             /\ Len(block.ScopeLogs) = 1
             /\ Len(block.ScopeLogs[1].LogRecords) = Len(e.Logs)
             /\ \A n \in 1..Len(e.Logs) :
                    block.ScopeLogs[1].LogRecords[n].Body.s = e.Logs[n].Body
      [] kind = "spans" ->
             /\ keysOf(block.Resource.Attributes) = setKeys(e)
             /\ Len(block.ScopeSpans) = 1
             /\ Len(block.ScopeSpans[1].Spans) = Len(e.Spans)
             /\ \A n \in 1..Len(e.Spans) :
                    block.ScopeSpans[1].Spans[n].Name = e.Spans[n].Name

\* C6: the payload a builder (metrics, logs, spans) builds holds exactly one
\* resource block per entity whose telemetry of the built kind is not empty,
\* in the order of the input entities, and none for an entity whose telemetry
\* of that kind is empty, whatever other telemetry it has.
C6_OneBlockPerNonEmptyEntity ==
    BuilderReturned =>
        /\ Len(payload) = Len(sources)
        /\ \A j \in 1..Len(sources) : blockIsOf(payload[j], input[sources[j]])

\* a spans payload of one block built from two entities, the first of which
\* has logs and no span
C6_Witness ==
    /\ kind = "spans" /\ Len(input) = 2 /\ Len(payload) = 1
    /\ Len(input[1].Spans) = 0 /\ Len(input[1].Logs) > 0
    /\ Len(input[2].Spans) > 0

supported(ms) == SelectSeq(ms, LAMBDA m : m.ContentType \in {"sum", "gauge"})

\* C7: metrics whose ContentType is neither "sum" nor "gauge" are dropped: the
\* ScopeMetrics metric list of the entity holds only the translations of its
\* sum and gauge metrics, in input order, with no nil or placeholder entry.
C7_UnsupportedMetricsDropped ==
    (kind = "metrics" /\ Len(payload) = Len(sources)) =>
        \A j \in 1..Len(sources) :
            LET ml == payload[j].ScopeMetrics[1].Metrics
                want == supported(input[sources[j]].Metrics)
            IN  /\ Len(ml) = Len(want)
                /\ \A n \in 1..Len(ml) : ~ml[n].nil /\ ml[n].Name = want[n].TypeName

eventKeys == {keyAppdIsEvent, keyAppdEventType}

taggedAsEvent(rec, l) ==
    /\ \A k \in eventKeys : Cardinality(entriesOf(rec.Attributes, k)) = 1
    /\ \A n \in entriesOf(rec.Attributes, keyAppdIsEvent) :
           rec.Attributes[n].Value = StringValue("true")
    /\ \A n \in entriesOf(rec.Attributes, keyAppdEventType) :
           rec.Attributes[n].Value = StringValue(l.TypeName)

notTagged(rec, before, after) ==
    /\ \A k \in eventKeys :
           entriesOf(rec.Attributes, k) # {} => k \in DOMAIN before.Attributes
    /\ after.Attributes = before.Attributes

\* C9: a log with IsEvent set gives a LogRecord whose attributes hold
\* appd.isevent = "true" and appd.event.type = TypeName, whatever the caller
\* supplied under those keys; a log without IsEvent gives a LogRecord that
\* holds neither key unless the caller's mapping held it, and the caller's
\* mapping is left as it was.
C9_EventTagging ==
    (kind = "logs" /\ result.ret # "panic" /\ Len(payload) = Len(sources)) =>
        \A j \in 1..Len(sources) :
            LET before == input[sources[j]].Logs
                after == entities[sources[j]].Logs
                recs == payload[j].ScopeLogs[1].LogRecords
            IN  /\ Len(recs) = Len(before)
                /\ \A n \in 1..Len(before) :
                       IF before[n].IsEvent
                       THEN taggedAsEvent(recs[n], before[n])
                       ELSE notTagged(recs[n], before[n], after[n])

\* an entity with an event log that overrides a caller's appd.isevent, and a
\* log that is no event and holds the caller's appd.event.type
C9_Witness ==
    /\ kind = "logs" /\ result.ret # "panic" /\ Len(payload) > 0
    /\ \E i \in 1..Len(input) :
           /\ Len(input[i].Logs) = 2
           /\ input[i].Logs[1].IsEvent
           /\ keyAppdIsEvent \in DOMAIN input[i].Logs[1].Attributes
           /\ ~input[i].Logs[2].IsEvent
           /\ keyAppdEventType \in DOMAIN input[i].Logs[2].Attributes

encodedRelations(kvs) ==
    {n \in relationsEntries(kvs) : kvs[n].Value.type = "ArrayValue"}

\* C10: in every resource block the key appd.fmm.entity.relations occurs at
\* most once among the resource attributes; in a metrics or logs payload the
\* relationship encoder emits it exactly when the entity has a relationship,
\* with one array element per relationship in input order, and in a spans
\* payload the encoder never adds it.
C10_RelationsKeyAtMostOnce ==
    (BuilderReturned /\ Len(payload) = Len(sources)) =>
        \A j \in 1..Len(sources) :
            LET kvs == payload[j].Resource.Attributes
                rels == input[sources[j]].Relationships
            IN  /\ Cardinality(relationsEntries(kvs)) <= 1
                /\ IF kind = "spans" THEN encodedRelations(kvs) = {}
                   ELSE /\ (encodedRelations(kvs) # {}) <=> (Len(rels) > 0)
                        /\ \A n \in encodedRelations(kvs) :
                               /\ Len(kvs[n].Value.list) = Len(rels)
                               /\ \A r \in 1..Len(rels) :
                                      keysOf(kvs[n].Value.list[r].list) =
                                          DOMAIN rels[r].Attributes

-----------------------------------------------------------------------------
(* Claims about the coercer (SpecCoerce).                                  *)

\* what the dispatch rule of the attribute coercer asks of the entry of a value
dispatchedAs(val, av) ==
    CASE val.kind = "bool" -> av.type = "BoolValue" /\ av.b = val.b
      [] val.kind \in SignedKinds -> av.type = "IntValue" /\ av.i = val.i
      [] val.kind \in UnsignedKinds -> av.type = "IntValue" /\ av.i = val.i
      [] val.kind \in FloatKinds -> av.type = "DoubleValue" /\ av.i = val.i
      [] val.kind = "string" -> av.type = "StringValue" /\ av.s = val.s
      [] OTHER -> av.type = "StringValue" /\ av.s = Sprintv(val)

\* C8: toKeyValueList dispatches on the runtime kind of each value: a boolean
\* gives BoolValue, a signed or unsigned integer of any width (8, 16, 32, 64
\* bit or native) IntValue, a float DoubleValue, a string StringValue, nil no
\* entry, and only the other kinds a StringValue holding the text rendering;
\* the output has exactly one entry per key with a non-nil value.
C8_DispatchByKind ==
    kind = "coerce" =>
        /\ Len(attribs) = Cardinality({k \in DOMAIN a : a[k].kind # "invalid"})
        /\ \A k \in DOMAIN a :
               IF a[k].kind = "invalid"
               THEN entriesOf(attribs, k) = {}
               ELSE /\ Cardinality(entriesOf(attribs, k)) = 1
                    /\ \A i \in entriesOf(attribs, k) : dispatchedAs(a[k], attribs[i].Value)

-----------------------------------------------------------------------------
(* Claims about the relationship encoders (SpecRel).                       *)

\* C11: relationship encoding is deterministic and the same at both
\* attachment points: any two encodings of one relationship sequence, by
\* addRelationships or by addRelationshipsToMetrics, leave identical
\* resource attributes, so the same relations attribute with the same
\* relationships in the same order and the same key-value entries in the
\* same order inside each one.
C11_EncodingDeterministic ==
    \A i, j \in 1..Len(encodings) :
        encodings[i].Attributes = encodings[j].Attributes

-----------------------------------------------------------------------------
(* Claims about panics (Spec).                                             *)

\* C12: every export call on a non-nil exporter that does not end the
\* process with log.Fatalf returns nil or an error and never panics, for
\* every entity list and every outcome of the HTTP collaborator.
C12_NeverPanics ==
    (Exported /\ ~has("fatal")) => result.ret \in {"nil", "error"}

====
